---- MODULE Spec2Model ----
(***************************************************************************)
(* Model of the haptic relay server (src/server.js): an Express process    *)
(* whose only state is the in-memory Map hapticSessions, written by the    *)
(* create handler, read by the retrieve / share-page / health handlers and *)
(* purged by cleanupExpiredSessions (called by every create and by an      *)
(* hourly interval timer).  Handlers are synchronous, so each one is one   *)
(* atomic action.  Time is the wall clock in milliseconds, counted from    *)
(* the start of the process.                                               *)
(***************************************************************************)
EXTENDS Integers, Sequences, FiniteSets, TLC

\* ------------------------------------------------------------------ constants

\* 24 * 60 * 60 * 1000 : the expiry added to Date.now() by the create handler
TTL == 86400000

\* 60 * 60 * 1000 : the period of setInterval(cleanupExpiredSessions, ...)
SweepInterval == 3600000

\* ------------------------------------------------------------------ bounds

\* the clock stays inside the window  day <= MaxDays, millisecond-of-day <= MaxMs
MaxDays == 1
MaxMs == 1

\* largest number of milliseconds the clock may move during one handler run
MaxDrift == 1

\* ------------------------------------------------------------------ JS values

\* a JavaScript value as far as the handlers inspect it: undefined, a string,
\* or an object (the AHAP document) that may or may not carry a Pattern array
JsUndefined == [tag |-> "undefined", str |-> "", hasPattern |-> FALSE, Pattern |-> <<>>]

JsString(s) == [tag |-> "string", str |-> s, hasPattern |-> FALSE, Pattern |-> <<>>]

JsObject(hasP, pat) == [tag |-> "object", str |-> "", hasPattern |-> hasP, Pattern |-> pat]

\* JavaScript truthiness, as used by `!ahap`
Truthy(v) == \/ v.tag = "object"
             \/ (v.tag = "string" /\ v.str # "")

\* request inputs
Keys == {"x", "y"}

SessionIds == Keys \cup {""}

PayloadA == JsObject(TRUE, <<"e1", "e2", "e3">>)

PayloadB == JsObject(FALSE, <<>>)

Payloads == {PayloadA, PayloadB}

MediaX == JsString("http://media/x.mp4")

\* request bodies { ahap, mediaUrl }: two valid ones (with and without a
\* mediaUrl) and one without ahap
Bodies ==
    {[ahap |-> PayloadA, mediaUrl |-> MediaX],
     [ahap |-> PayloadB, mediaUrl |-> JsUndefined],
     [ahap |-> JsUndefined, mediaUrl |-> MediaX]}

\* ------------------------------------------------------------------ dates

\* Date.prototype.toISOString: the millisecond timestamp split into its
\* calendar fields (the day number stands for the year-month-day part)
toISOString(t) ==
    [day  |-> t \div 86400000,
     hour |-> (t % 86400000) \div 3600000,
     min  |-> (t % 3600000) \div 60000,
     sec  |-> (t % 60000) \div 1000,
     ms   |-> t % 1000]

\* new Date(isoString).getTime(): the fields recombined
getTime(iso) ==
    iso.day * 86400000 + iso.hour * 3600000 + iso.min * 60000
        + iso.sec * 1000 + iso.ms

\* ------------------------------------------------------------------ the Map

\* A JS Map is an insertion-ordered list of entries [key, value].
MapIndex(m, k) ==
    IF \E i \in 1..Len(m) : m[i].key = k
    THEN CHOOSE i \in 1..Len(m) : m[i].key = k /\ \A j \in 1..(i - 1) : m[j].key # k
    ELSE 0

MapHas(m, k) == MapIndex(m, k) # 0

\* the value returned by Map.prototype.get for a missing key is undefined;
\* NoSession is that falsy result
NoSession ==
    [ahap |-> JsUndefined, mediaUrl |-> JsUndefined,
     created |-> toISOString(0), expires |-> toISOString(0), defined |-> FALSE]

\* variant: a missing key falls back to the oldest entry
MapGet_FallbackFirst(m, k) ==
    IF MapIndex(m, k) = 0
    THEN (IF Len(m) = 0 THEN NoSession ELSE m[1].value)
    ELSE m[MapIndex(m, k)].value

MapGet(m, k) ==
    IF MapIndex(m, k) = 0 THEN NoSession ELSE m[MapIndex(m, k)].value

\* variant: an existing key keeps its old value
MapSet_KeepExisting(m, k, v) ==
    IF MapIndex(m, k) = 0 THEN Append(m, [key |-> k, value |-> v]) ELSE m

\* variant: every set appends a new entry, also for an existing key
MapSet_AlwaysAppend(m, k, v) == Append(m, [key |-> k, value |-> v])

\* Map.prototype.set: replace in place when the key exists, else append
MapSet(m, k, v) ==
    IF MapIndex(m, k) = 0
    THEN Append(m, [key |-> k, value |-> v])
    ELSE [m EXCEPT ![MapIndex(m, k)] = [key |-> k, value |-> v]]

\* the number of entries stored under key k
EntriesFor(m, k) == Cardinality({i \in 1..Len(m) : m[i].key = k})

\* ------------------------------------------------------------------ cleanup

\* variant: the age test reads created instead of expires
cleanup_ByCreated(m, t) ==
    SelectSeq(m, LAMBDA e : ~(getTime(e.value.created) < t))

\* variant: the loop stops after its first delete
cleanup_FirstOnly(m, t) ==
    LET hit == {i \in 1..Len(m) : getTime(m[i].value.expires) < t} IN
    IF hit = {} THEN m
    ELSE LET f == CHOOSE i \in hit : \A j \in hit : i <= j
         IN SubSeq(m, 1, f - 1) \o SubSeq(m, f + 1, Len(m))

\* variant: the expiry is added a second time, to the clock
cleanup_TtlTwice(m, t) ==
    SelectSeq(m, LAMBDA e : ~(getTime(e.value.expires) < t + TTL))

\* cleanupExpiredSessions with Date.now() = t: every entry whose parsed
\* expires is strictly less than t is deleted, the others keep their order
cleanupExpiredSessions(m, t) ==
    SelectSeq(m, LAMBDA e : ~(getTime(e.value.expires) < t))

\* ------------------------------------------------------------------ state

VARIABLES
    hapticSessions,   \* the Map
    now,              \* the wall clock, ms since process start
    nextSweep,        \* earliest time the interval timer may fire next
    last,             \* the operation that ran last: its request (key, and for
                      \* a create the type of ahap) and its response status
    stored            \* history: per key, the record the last accepted create
                      \* stored

vars == <<hapticSessions, now, nextSweep, last, stored>>

InWindow(t) ==
    /\ t \div 86400000 <= MaxDays
    /\ t % 86400000 <= MaxMs

NoStore == [ok |-> FALSE, rec |-> NoSession]

Init ==
    /\ hapticSessions = <<>>
    /\ now = 0
    /\ nextSweep = SweepInterval
    /\ last = [op |-> "start", key |-> "", status |-> 0, arg |-> "", note |-> ""]
    /\ stored = [k \in Keys |-> NoStore]

\* ------------------------------------------------------------------ responses

\* GET /api/haptic/:sessionId
Retrieve(m, sessionId) ==
    LET session == MapGet(m, sessionId) IN
    IF ~session.defined
    THEN [status |-> 404, text |-> "Session not found or expired", session |-> NoSession]
    ELSE [status |-> 200, text |-> "", session |-> session]

\* GET /haptic/:sessionId ; reading .length of a missing Pattern throws, which
\* Express turns into a 500 response
Render(m, sessionId) ==
    LET session == MapGet(m, sessionId) IN
    IF ~session.defined
    THEN [status |-> 404, text |-> "Haptic session not found or expired", events |-> 0]
    ELSE IF ~session.ahap.hasPattern
         THEN [status |-> 500, text |-> "TypeError", events |-> 0]
         ELSE [status |-> 200, text |-> "html", events |-> Len(session.ahap.Pattern)]

\* GET /health
Health(m) == [status |-> 200, sessions |-> Len(m)]

\* the state of key k when a create for it arrives, kept with the request:
\* never created, swept, or physically present and live or expired; a
\* trailing * marks a present record whose payload differs from the new one
PriorState(k, ahap) ==
    IF k \notin Keys THEN "none"
    ELSE IF MapHas(hapticSessions, k)
         THEN (IF getTime(MapGet(hapticSessions, k).expires) <= now
               THEN "expired" ELSE "live")
              \o (IF MapGet(hapticSessions, k).ahap # ahap THEN "*" ELSE "")
         ELSE IF stored[k].ok THEN "swept" ELSE "never"

\* ------------------------------------------------------------------ actions

\* variant: the request is rejected only when both fields are missing
Create_AndGuard(sessionId, ahap, mediaUrl, d1, d2) ==
    LET t1 == now
        t2 == t1 + d1
        t3 == t2 + d2
        rec == [ahap |-> ahap, mediaUrl |-> mediaUrl,
                created |-> toISOString(t1),
                expires |-> toISOString(t2 + TTL),
                defined |-> TRUE]
    IN
    IF sessionId = "" /\ ~Truthy(ahap)
    THEN /\ d1 = 0 /\ d2 = 0
         /\ last' = [op |-> "create", key |-> sessionId, status |-> 400,
                     arg |-> ahap.tag, note |-> ""]
         /\ UNCHANGED <<hapticSessions, now, nextSweep, stored>>
    ELSE /\ d1 + d2 <= MaxDrift
         /\ InWindow(t3)
         /\ hapticSessions' =
                cleanupExpiredSessions(MapSet(hapticSessions, sessionId, rec), t3)
         /\ now' = t3
         /\ last' = [op |-> "create", key |-> sessionId, status |-> 200,
                     arg |-> ahap.tag, note |-> PriorState(sessionId, ahap)]
         /\ stored' = [stored EXCEPT ![sessionId] = [ok |-> TRUE, rec |-> rec]]
         /\ UNCHANGED nextSweep

\* variant: the record is stored before the request is validated
Create_StoreThenValidate(sessionId, ahap, mediaUrl, d1, d2) ==
    LET t1 == now
        t2 == t1 + d1
        t3 == t2 + d2
        rec == [ahap |-> ahap, mediaUrl |-> mediaUrl,
                created |-> toISOString(t1),
                expires |-> toISOString(t2 + TTL),
                defined |-> TRUE]
    IN
    IF sessionId = "" \/ ~Truthy(ahap)
    THEN /\ d1 = 0 /\ d2 = 0
         /\ last' = [op |-> "create", key |-> sessionId, status |-> 400,
                     arg |-> ahap.tag, note |-> ""]
         /\ hapticSessions' = MapSet(hapticSessions, sessionId, rec)
         /\ UNCHANGED <<now, nextSweep, stored>>
    ELSE /\ d1 + d2 <= MaxDrift
         /\ InWindow(t3)
         /\ hapticSessions' =
                cleanupExpiredSessions(MapSet(hapticSessions, sessionId, rec), t3)
         /\ now' = t3
         /\ last' = [op |-> "create", key |-> sessionId, status |-> 200,
                     arg |-> ahap.tag, note |-> PriorState(sessionId, ahap)]
         /\ stored' = [stored EXCEPT ![sessionId] = [ok |-> TRUE, rec |-> rec]]
         /\ UNCHANGED nextSweep

\* variant: the handler does not call cleanupExpiredSessions
Create_NoCleanup(sessionId, ahap, mediaUrl, d1, d2) ==
    LET t1 == now
        t2 == t1 + d1
        t3 == t2 + d2
        rec == [ahap |-> ahap, mediaUrl |-> mediaUrl,
                created |-> toISOString(t1),
                expires |-> toISOString(t2 + TTL),
                defined |-> TRUE]
    IN
    IF sessionId = "" \/ ~Truthy(ahap)
    THEN /\ d1 = 0 /\ d2 = 0
         /\ last' = [op |-> "create", key |-> sessionId, status |-> 400,
                     arg |-> ahap.tag, note |-> ""]
         /\ UNCHANGED <<hapticSessions, now, nextSweep, stored>>
    ELSE /\ d1 + d2 <= MaxDrift
         /\ InWindow(t3)
         /\ hapticSessions' = MapSet(hapticSessions, sessionId, rec)
         /\ now' = t3
         /\ last' = [op |-> "create", key |-> sessionId, status |-> 200,
                     arg |-> ahap.tag, note |-> PriorState(sessionId, ahap)]
         /\ stored' = [stored EXCEPT ![sessionId] = [ok |-> TRUE, rec |-> rec]]
         /\ UNCHANGED nextSweep

\* POST /api/haptic/:sessionId.  An accepted request reads the clock three
\* times: new Date() for created (t1), Date.now() for expires (t2) and
\* Date.now() inside cleanupExpiredSessions (t3); d1 and d2 are the
\* milliseconds that pass between the reads.  A rejected request returns
\* before any clock read.
Create(sessionId, ahap, mediaUrl, d1, d2) ==
    LET t1 == now
        t2 == t1 + d1
        t3 == t2 + d2
        rec == [ahap |-> ahap, mediaUrl |-> mediaUrl,
                created |-> toISOString(t1),
                expires |-> toISOString(t2 + TTL),
                defined |-> TRUE]
    IN
    IF sessionId = "" \/ ~Truthy(ahap)
    THEN /\ d1 = 0 /\ d2 = 0
         /\ last' = [op |-> "create", key |-> sessionId, status |-> 400,
                     arg |-> ahap.tag, note |-> ""]
         /\ UNCHANGED <<hapticSessions, now, nextSweep, stored>>
    ELSE /\ d1 + d2 <= MaxDrift
         /\ InWindow(t3)
         /\ hapticSessions' =
                cleanupExpiredSessions(MapSet(hapticSessions, sessionId, rec), t3)
         /\ now' = t3
         /\ last' = [op |-> "create", key |-> sessionId, status |-> 200,
                     arg |-> ahap.tag, note |-> PriorState(sessionId, ahap)]
         /\ stored' = [stored EXCEPT ![sessionId] = [ok |-> TRUE, rec |-> rec]]
         /\ UNCHANGED nextSweep

\* variant: a retrieve deletes the record it finds expired
Get_EagerDelete(sessionId) ==
    /\ last' = [op |-> "get", key |-> sessionId,
                status |-> Retrieve(hapticSessions, sessionId).status, arg |-> "",
                note |-> IF last.op = "create" /\ last.status = 200 /\ last.key = sessionId
                         THEN last.note ELSE ""]
    /\ hapticSessions' =
          IF MapHas(hapticSessions, sessionId)
             /\ getTime(MapGet(hapticSessions, sessionId).expires) <= now
          THEN SelectSeq(hapticSessions, LAMBDA e : e.key # sessionId)
          ELSE hapticSessions
    /\ UNCHANGED <<now, nextSweep, stored>>

\* GET /api/haptic/:sessionId.  A retrieve that directly follows an accepted
\* create of the same key keeps that create's note.
Get(sessionId) ==
    /\ last' = [op |-> "get", key |-> sessionId,
                status |-> Retrieve(hapticSessions, sessionId).status, arg |-> "",
                note |-> IF last.op = "create" /\ last.status = 200 /\ last.key = sessionId
                         THEN last.note ELSE ""]
    /\ UNCHANGED <<hapticSessions, now, nextSweep, stored>>

\* GET /haptic/:sessionId
Page(sessionId) ==
    /\ last' = [op |-> "page", key |-> sessionId,
                status |-> Render(hapticSessions, sessionId).status, arg |-> "", note |-> ""]
    /\ UNCHANGED <<hapticSessions, now, nextSweep, stored>>

\* GET /health
Probe ==
    /\ last' = [op |-> "health", key |-> "",
                status |-> Health(hapticSessions).status, arg |-> "", note |-> ""]
    /\ UNCHANGED <<hapticSessions, now, nextSweep, stored>>

\* the interval timer fires: cleanupExpiredSessions runs as its callback, no
\* earlier than SweepInterval after the timer was armed
TimerSweep ==
    /\ now >= nextSweep
    /\ hapticSessions' = cleanupExpiredSessions(hapticSessions, now)
    /\ nextSweep' = now + SweepInterval
    /\ last' = [op |-> "sweep", key |-> "", status |-> 0, arg |-> "",
                note |-> IF last.op = "sweep" \/ (last.op = "create" /\ last.status = 200)
                         THEN "rerun" ELSE "run"]
    /\ UNCHANGED <<now, stored>>

\* wall-clock time passes between two callbacks
Tick(d) ==
    /\ InWindow(now + d)
    /\ now' = now + d
    /\ last' = [op |-> "tick", key |-> "", status |-> 0, arg |-> "", note |-> ""]
    /\ UNCHANGED <<hapticSessions, nextSweep, stored>>

\* one millisecond, or one day
Deltas == {1, 86400000}

Next ==
    \/ \E sessionId \in SessionIds, body \in Bodies,
          d1 \in 0..MaxDrift, d2 \in 0..MaxDrift :
            Create(sessionId, body.ahap, body.mediaUrl, d1, d2)
    \/ \E sessionId \in Keys : Get(sessionId)
    \/ \E sessionId \in Keys : Page(sessionId)
    \/ Probe
    \/ TimerSweep
    \/ \E d \in Deltas : Tick(d)

Spec == Init /\ [][Next]_vars

TypeOK ==
    /\ now \in Nat
    /\ nextSweep \in Nat
    /\ \A i \in 1..Len(hapticSessions) : hapticSessions[i].key \in Keys

\* ------------------------------------------------------------------ claims

\* key k holds a physically present record whose expiry has been reached
ExpiredPresent(k) ==
    /\ MapHas(hapticSessions, k)
    /\ getTime(MapGet(hapticSessions, k).expires) <= now

\* the step just taken is an accepted create of key k
AcceptedCreate(l, k) == l.op = "create" /\ l.status = 200 /\ l.key = k

\* C1: a retrieve or a share-page render of a key whose stored record has
\* expiresAt <= now answers NotFound (404), even when the record is still in
\* the map because no sweep has removed it.
C1_ExpiredIsHidden ==
    (last.op \in {"get", "page"} /\ last.key \in Keys /\ ExpiredPresent(last.key))
        => last.status = 404

\* C2: right after an accepted create of (K, P, M), a retrieve of K returns a
\* record with payload P and mediaUrl M, whatever the state of K was before.
C2_CreateThenRetrieve ==
    \A k \in Keys :
        (AcceptedCreate(last, k)
         \/ (last.op = "get" /\ last.key = k /\ last.note # ""))
        => LET r == Retrieve(hapticSessions, k) IN
           /\ r.status = 200
           /\ r.session.ahap = stored[k].rec.ahap
           /\ r.session.mediaUrl = stored[k].rec.mediaUrl
           /\ (last.op = "get" => last.status = 200)

\* C2 witness: a retrieve directly after a create that replaced an expired
\* record, not yet swept, of a different payload
C2_Witness ==
    /\ last.op = "get"
    /\ last.note = "expired*"
    /\ last.status = 200

\* C3: when cleanupExpiredSessions runs at time now, every record with
\* expiresAt > now is still present and unchanged afterwards and every record
\* with expiresAt <= now (expiresAt = now included) has been removed.
C3_SweepExactBoundary ==
    [][last'.op = "sweep" =>
        \A i \in 1..Len(hapticSessions) :
            LET e == hapticSessions[i] IN
            IF getTime(e.value.expires) > now
            THEN MapHas(hapticSessions', e.key)
                 /\ MapGet(hapticSessions', e.key) = e.value
            ELSE ~MapHas(hapticSessions', e.key)]_vars

\* C4: last write wins.  For a key that was created, the map never holds more
\* than one record, it holds exactly one right after the create and whenever
\* a retrieve finds the key, and the payload a retrieve returns is the one of
\* the last accepted create, never an earlier one.
C4_LastWriteWins ==
    \A k \in Keys :
        stored[k].ok =>
            /\ EntriesFor(hapticSessions, k) <= 1
            /\ AcceptedCreate(last, k) => EntriesFor(hapticSessions, k) = 1
            /\ Retrieve(hapticSessions, k).status = 200
                 => /\ Retrieve(hapticSessions, k).session.ahap = stored[k].rec.ahap
                    /\ EntriesFor(hapticSessions, k) = 1

\* C4 witness: a retrieve that found the key directly after a create that
\* replaced a live record of a different payload
C4_Witness ==
    /\ last.op = "get"
    /\ last.status = 200
    /\ last.note = "live*"
    /\ Len(hapticSessions) = 2

\* C5: expiry is monotone.  The clock never runs backwards, and a key whose
\* retrieve answers NotFound keeps answering NotFound after every step that
\* is not an accepted create of that key.
C5_ExpiryMonotone ==
    [][/\ now' >= now
       /\ \A k \in Keys :
            (Retrieve(hapticSessions, k).status = 404 /\ ~AcceptedCreate(last', k))
                => Retrieve(hapticSessions', k).status = 404]_vars

\* C5 witness: a retrieve answered NotFound for a key that was created, has
\* expired and was swept, while the other key is stored
C5_Witness ==
    /\ last.op = "get"
    /\ last.status = 404
    /\ last.key \in Keys
    /\ stored[last.key].ok
    /\ now > getTime(stored[last.key].rec.expires)
    /\ Len(hapticSessions) = 1

\* C6: a create whose sessionId is empty or whose ahap is absent is answered
\* 400 and leaves the map exactly as it was.
C6_RejectedCreateNoEffect ==
    [][(last'.op = "create" /\ (last'.key = "" \/ last'.arg = "undefined"))
        => (last'.status = 400 /\ hapticSessions' = hapticSessions)]_vars

\* C6 witness: a create was rejected while the map holds two records, one of
\* them expired and not yet swept
C6_Witness ==
    /\ last.op = "create"
    /\ last.status = 400
    /\ last.arg = "undefined"
    /\ Len(hapticSessions) = 2
    /\ \E k \in Keys : ExpiredPresent(k)

\* C7: read your writes.  While less than 24h have passed since the created
\* time of the last accepted create of K, a retrieve of K returns exactly the
\* record of that create, whatever creates and sweeps ran in between.
C7_ReadYourWrites ==
    \A k \in Keys :
        (stored[k].ok /\ now - getTime(stored[k].rec.created) < TTL)
            => /\ Retrieve(hapticSessions, k).status = 200
               /\ Retrieve(hapticSessions, k).session = stored[k].rec

\* C7 witness: a timer sweep has just removed the expired record of one key
\* while the other key, created less than 24h ago, is still stored
C7_Witness ==
    /\ last.op = "sweep"
    /\ \E k \in Keys :
          /\ stored[k].ok
          /\ now - getTime(stored[k].rec.created) < TTL
          /\ now > getTime(stored[k].rec.created)
    /\ \E k \in Keys : stored[k].ok /\ ~MapHas(hapticSessions, k)

\* C8: every record in the map satisfies expiresAt = createdAt + 24h exactly.
C8_ExactTTL ==
    \A i \in 1..Len(hapticSessions) :
        getTime(hapticSessions[i].value.expires)
            = getTime(hapticSessions[i].value.created) + TTL

\* C9: sweep idempotence.  Running cleanupExpiredSessions twice at the same
\* clock value gives the map of running it once; in particular a timer sweep
\* that follows another cleanup run (a sweep or an accepted create) with no
\* clock advance in between removes nothing.
C9_SweepIdempotent ==
    [][/\ cleanupExpiredSessions(cleanupExpiredSessions(hapticSessions, now), now)
            = cleanupExpiredSessions(hapticSessions, now)
       /\ ((last.op = "sweep" \/ (last.op = "create" /\ last.status = 200))
            /\ last'.op = "sweep" /\ now' = now)
          => hapticSessions' = hapticSessions]_vars

\* C9 witness: a timer sweep ran directly after another cleanup run that had
\* removed an expired record, and a record is still stored
C9_Witness ==
    /\ last.op = "sweep"
    /\ last.note = "rerun"
    /\ Len(hapticSessions) >= 1
    /\ \E k \in Keys : stored[k].ok /\ ~MapHas(hapticSessions, k)

\* C10: a key for which no create was ever accepted is answered NotFound by
\* retrieve (404, 'Session not found or expired') and by the share page (404,
\* plain text), whatever else has happened.
C10_NeverCreatedNotFound ==
    \A k \in Keys :
        ~stored[k].ok =>
            /\ Retrieve(hapticSessions, k).status = 404
            /\ Retrieve(hapticSessions, k).text = "Session not found or expired"
            /\ Render(hapticSessions, k).status = 404
            /\ Render(hapticSessions, k).text = "Haptic session not found or expired"
            /\ ((last.op \in {"get", "page"} /\ last.key = k) => last.status = 404)

\* C10 witness: a retrieve of a never-created key answered 404 after time has
\* passed, while the other key is stored
C10_Witness ==
    /\ last.op = "get"
    /\ last.status = 404
    /\ last.key \in Keys
    /\ ~stored[last.key].ok
    /\ Len(hapticSessions) = 1
    /\ now > 0

\* C11: key independence of create.  An accepted create of K, the sweep it
\* runs included, leaves the record of every other key whose expiresAt is
\* still ahead of the clock when the handler returns in the map, in the same
\* position relative to the other kept records and field for field unchanged.
C11_CreateKeyIndependence ==
    [][\A k \in Keys : \A j \in Keys :
          (AcceptedCreate(last', k) /\ j # k /\ MapHas(hapticSessions, j)
           /\ getTime(MapGet(hapticSessions, j).expires) > now')
            => /\ MapHas(hapticSessions', j)
               /\ MapGet(hapticSessions', j) = MapGet(hapticSessions, j)
               /\ EntriesFor(hapticSessions', j) = 1]_vars

\* C11 witness: an accepted create of one key has run a day or more after the
\* start while the other key holds an older record that is still live
C11_Witness ==
    \E k \in Keys : \E j \in Keys :
        /\ j # k
        /\ AcceptedCreate(last, k)
        /\ MapHas(hapticSessions, j)
        /\ getTime(MapGet(hapticSessions, j).expires) > now
        /\ getTime(MapGet(hapticSessions, j).created) < now
        /\ last.note \in {"expired", "expired*", "swept"}

\* C12: the share page and retrieve agree for every key: the page answers
\* not-found exactly when retrieve does, it answers the HTML page whenever
\* retrieve returns a record, whatever the payload looks like, and no request
\* ends in anything but success, InvalidArgument (400) or NotFound (404).
C12_RenderAgreesWithRetrieve ==
    /\ \A k \in Keys :
          /\ (Render(hapticSessions, k).status = 404)
                <=> (Retrieve(hapticSessions, k).status = 404)
          /\ Retrieve(hapticSessions, k).status = 200
                => Render(hapticSessions, k).status = 200
    /\ last.status \in {0, 200, 400, 404}

\* C13: when an accepted create returns, the map holds no record whose
\* expiresAt is earlier than the clock value the handler read last.
C13_CreatePurgesExpired ==
    (last.op = "create" /\ last.status = 200)
        => \A i \in 1..Len(hapticSessions) :
              ~(getTime(hapticSessions[i].value.expires) < now)

\* C13 witness: an accepted create has returned, the interval timer has never
\* fired, and the expired record of the other key is gone from the map
C13_Witness ==
    /\ last.op = "create"
    /\ last.status = 200
    /\ nextSweep = SweepInterval
    /\ \E j \in Keys :
          /\ j # last.key
          /\ stored[j].ok
          /\ getTime(stored[j].rec.expires) < now
          /\ ~MapHas(hapticSessions, j)

C15_ReadsHaveNoEffect ==
    [][/\ last'.op \in {"get", "page", "health"}
            => hapticSessions' = hapticSessions
       /\ Health(hapticSessions').sessions # Health(hapticSessions).sessions
            => (last'.op = "sweep" \/ (last'.op = "create" /\ last'.status = 200))]_vars

\* C15 witness: a retrieve has just returned an expired record that no sweep
\* has removed yet, and the map still holds both records
C15_Witness ==
    /\ last.op = "get"
    /\ last.status = 200
    /\ last.key \in Keys
    /\ ExpiredPresent(last.key)
    /\ getTime(MapGet(hapticSessions, last.key).expires) < now
    /\ Health(hapticSessions).sessions = 2

====
